---- MODULE Spec2Model ----
(***************************************************************************)
(* libcelt7.js: the JavaScript wrapper (Encoder, Decoder and their stream  *)
(* adapters) around the Emscripten build of CELT 0.7.1.                    *)
(*                                                                         *)
(* The wrapper is modelled call by call.  Every public operation is one    *)
(* action; the native calls it issues (_malloc, _free, the _celt_ calls)   *)
(* are recorded, in order, in the trace of the operation, and their effect *)
(* on the native heap and the engine's handles is applied with the action. *)
(* Sample values never influence the wrapper, so a frame is its type and   *)
(* its length and a packet is its length and whether the engine accepts it.*)
(***************************************************************************)
EXTENDS Integers, Sequences, FiniteSets, TLC

VARIABLES sess, libs, heap, alive, freed, destroys, calls, strm, wire, last

vars == <<sess, libs, heap, alive, freed, destroys, calls, strm, wire, last>>

(***************************************************************************)
(* Bounds of the model.                                                    *)
(***************************************************************************)
MaxCalls   == 2   \* engine encode/decode invocations per coder state
MaxDestroy == 2   \* destroy() calls per Session
MaxChunks  == 2   \* chunks written to one stream adapter

Sessions == {1, 2}          \* the Session objects of a run
GlobalLib == 0              \* libceltjs.instance
Libs == {GlobalLib} \cup Sessions

Undefined == -1             \* JS undefined, where a number is expected
NullPtr == 0

(***************************************************************************)
(* Native handles.  The engine never returns a live address twice; the     *)
(* handles of a Session are named after it.                                *)
(***************************************************************************)
ModeHandle(s)  == 2 * s - 1
CoderHandle(s) == 2 * s
Handles == {ModeHandle(s) : s \in Sessions} \cup {CoderHandle(s) : s \in Sessions}

(***************************************************************************)
(* Native call records and traces.                                         *)
(***************************************************************************)
Call(f, h, p, n, r) == [f |-> f, h |-> h, p |-> p, n |-> n, r |-> r]

FreshPtr(h) == CHOOSE p \in 1..(Cardinality(h) + 1) : p \notin h

\* _malloc(size): a block that is not live; what malloc(0) returns is
\* implementation-defined (null or a minimal block).
Malloc(h, size, nullOnZero) ==
  IF size = 0 /\ nullOnZero THEN NullPtr ELSE FreshPtr(h)

RECURSIVE HeapAfter(_, _, _)
HeapAfter(h, lib, trace) ==
  IF trace = <<>> THEN h
  ELSE LET c == Head(trace)
           h1 == IF c.f = "malloc" /\ c.r # NullPtr
                   THEN [h EXCEPT ![lib] = @ \cup {c.r}]
                 ELSE IF c.f = "free"
                   THEN [h EXCEPT ![lib] = @ \ {c.p}]
                 ELSE h
       IN HeapAfter(h1, lib, Tail(trace))

CreateCalls  == {"celt_mode_create", "celt_encoder_create", "celt_decoder_create"}
DestroyCalls == {"celt_mode_destroy", "celt_encoder_destroy", "celt_decoder_destroy"}
CodecCalls   == {"celt_encode", "celt_encode_float", "celt_decode", "celt_decode_float"}

RECURSIVE AliveAfter(_, _)
AliveAfter(a, trace) ==
  IF trace = <<>> THEN a
  ELSE LET c == Head(trace)
           a1 == IF c.f \in CreateCalls /\ c.r # 0 THEN a \cup {c.r}
                 ELSE IF c.f \in DestroyCalls THEN a \ {c.h}
                 ELSE a
       IN AliveAfter(a1, Tail(trace))

\* the number of destroy calls the engine has received for each handle
RECURSIVE FreedAfter(_, _)
FreedAfter(f, trace) ==
  IF trace = <<>> THEN f
  ELSE LET c == Head(trace)
           f1 == IF c.f \in DestroyCalls THEN [f EXCEPT ![c.h] = @ + 1] ELSE f
       IN FreedAfter(f1, Tail(trace))

RECURSIVE CountF(_, _)
CountF(trace, fs) ==
  IF trace = <<>> THEN 0
  ELSE (IF Head(trace).f \in fs THEN 1 ELSE 0) + CountF(Tail(trace), fs)

(***************************************************************************)
(* Results of an operation.                                                *)
(***************************************************************************)
Return(type, len, trace) ==
  [outcome |-> "return", error |-> "", msg |-> "", type |-> type, len |-> len,
   trace |-> trace]

Throw(error, msg, trace) ==
  [outcome |-> "throw", error |-> error, msg |-> msg, type |-> "", len |-> Undefined,
   trace |-> trace]

NoResult == [outcome |-> "none", error |-> "", msg |-> "", type |-> "", len |-> Undefined,
             trace |-> <<>>]

\* the engine's status codes: success, and the failure used for every refusal
CELT_OK == 0
CELT_BAD_ARG == -1

\* utils.stringifyError: the text _celt_strerror gives for a status code
stringifyError(errorId) ==
  IF errorId = CELT_OK THEN "celt_strerror: no error" ELSE "celt_strerror: error"

(***************************************************************************)
(* Session construction.                                                   *)
(***************************************************************************)
Opts(rate, frameSize, channels, unsafe) ==
  [rate |-> rate, frameSize |-> frameSize, channels |-> channels, unsafe |-> unsafe]

\* the defaults of extend({...}, opts)
DefaultOpts == Opts(48000, 256, 1, FALSE)

NoError == ""

\* the option checks with the rate checked before the channels
Validate_rateFirst(opts) ==
  IF opts.rate < 32000 \/ opts.rate > 96000 THEN "rate must be in range 32000 - 96000"
  ELSE IF opts.rate % 2 # 0 THEN "rate must be even"
  ELSE IF opts.channels < 1 THEN "channels must be greater than 0"
  ELSE NoError

\* the option checks without the test for an even rate
Validate_noEven(opts) ==
  IF opts.channels < 1 THEN "channels must be greater than 0"
  ELSE IF opts.rate < 32000 \/ opts.rate > 96000 THEN "rate must be in range 32000 - 96000"
  ELSE NoError

\* the three option checks of the constructors
Validate(opts) ==
  IF opts.channels < 1 THEN "channels must be greater than 0"
  ELSE IF opts.rate < 32000 \/ opts.rate > 96000 THEN "rate must be in range 32000 - 96000"
  ELSE IF opts.rate % 2 # 0 THEN "rate must be even"
  ELSE NoError

\* the frame sizes the engine is documented to take: even, 64 - 512
FrameSizeSupported(frameSize) ==
  frameSize >= 64 /\ frameSize <= 512 /\ frameSize % 2 = 0

\* _celt_mode_create: 0 with an error code in *p_err, or a new mode
celt_mode_create(s, rate, frameSize, refuse) ==
  IF refuse \/ ~FrameSizeSupported(frameSize) THEN 0 ELSE ModeHandle(s)

\* _celt_encoder_create / _celt_decoder_create: 0, or a new coder state
celt_coder_create(s, mode, channels, refuse) ==
  IF refuse \/ mode = 0 THEN 0 ELSE CoderHandle(s)

UnbornSession ==
  [status |-> "unborn", kind |-> "", rate |-> 0, frameSize |-> 0, channels |-> 0,
   unsafe |-> FALSE, lib |-> GlobalLib, mode |-> 0, coder |-> 0]

LibOf(s, opts) == IF opts.unsafe THEN GlobalLib ELSE s

\* a construction that allocates the error cell before checking the options
Construct_result_allocFirst(s, kind, opts, h, refuseMode, refuseCoder) ==
  LET verr == Validate(opts)
      create == IF kind = "Encoder" THEN "celt_encoder_create" ELSE "celt_decoder_create"
      p_err == Malloc(h, 4, FALSE)
      mode == celt_mode_create(s, opts.rate, opts.frameSize, refuseMode)
      coder == celt_coder_create(s, mode, opts.channels, refuseCoder)
      m0 == <<Call("malloc", 0, 0, 4, p_err)>>
      t0 == m0 \o <<Call("celt_mode_create", 0, p_err, opts.frameSize, mode)>>
      t1 == t0 \o <<Call(create, mode, p_err, opts.channels, coder)>>
      fin == <<Call("free", 0, p_err, 0, 0)>>
  IN IF verr # NoError THEN Throw("Error", verr, m0 \o fin)
     ELSE IF mode = 0 THEN Throw("Error", stringifyError(CELT_BAD_ARG), t0 \o fin)
     ELSE IF coder = 0
       THEN Throw("Error", stringifyError(CELT_BAD_ARG),
                  t1 \o <<Call("celt_mode_destroy", mode, 0, 0, 0)>> \o fin)
     ELSE Return(kind, 0, t1 \o fin)

\* a construction that frees the error cell only when it succeeds
Construct_result_leakErr(s, kind, opts, h, refuseMode, refuseCoder) ==
  LET verr == Validate(opts)
      create == IF kind = "Encoder" THEN "celt_encoder_create" ELSE "celt_decoder_create"
      p_err == Malloc(h, 4, FALSE)
      mode == celt_mode_create(s, opts.rate, opts.frameSize, refuseMode)
      coder == celt_coder_create(s, mode, opts.channels, refuseCoder)
      t0 == <<Call("malloc", 0, 0, 4, p_err),
              Call("celt_mode_create", 0, p_err, opts.frameSize, mode)>>
      t1 == t0 \o <<Call(create, mode, p_err, opts.channels, coder)>>
      fin == <<Call("free", 0, p_err, 0, 0)>>
  IN IF verr # NoError THEN Throw("Error", verr, <<>>)
     ELSE IF mode = 0 THEN Throw("Error", stringifyError(CELT_BAD_ARG), t0)
     ELSE IF coder = 0
       THEN Throw("Error", stringifyError(CELT_BAD_ARG),
                  t1 \o <<Call("celt_mode_destroy", mode, 0, 0, 0)>>)
     ELSE Return(kind, 0, t1 \o fin)

\* a construction that keeps the mode when the coder state is refused
Construct_result_keepMode(s, kind, opts, h, refuseMode, refuseCoder) ==
  LET verr == Validate(opts)
      create == IF kind = "Encoder" THEN "celt_encoder_create" ELSE "celt_decoder_create"
      p_err == Malloc(h, 4, FALSE)
      mode == celt_mode_create(s, opts.rate, opts.frameSize, refuseMode)
      coder == celt_coder_create(s, mode, opts.channels, refuseCoder)
      t0 == <<Call("malloc", 0, 0, 4, p_err),
              Call("celt_mode_create", 0, p_err, opts.frameSize, mode)>>
      t1 == t0 \o <<Call(create, mode, p_err, opts.channels, coder)>>
      fin == <<Call("free", 0, p_err, 0, 0)>>
  IN IF verr # NoError THEN Throw("Error", verr, <<>>)
     ELSE IF mode = 0 THEN Throw("Error", stringifyError(CELT_BAD_ARG), t0 \o fin)
     ELSE IF coder = 0 THEN Throw("Error", stringifyError(CELT_BAD_ARG), t1 \o fin)
     ELSE Return(kind, 0, t1 \o fin)

\* function Encoder(opts) / function Decoder(opts): the result and the
\* native calls of one construction
Construct_result(s, kind, opts, h, refuseMode, refuseCoder) ==
  LET verr == Validate(opts)
      create == IF kind = "Encoder" THEN "celt_encoder_create" ELSE "celt_decoder_create"
      p_err == Malloc(h, 4, FALSE)
      mode == celt_mode_create(s, opts.rate, opts.frameSize, refuseMode)
      coder == celt_coder_create(s, mode, opts.channels, refuseCoder)
      t0 == <<Call("malloc", 0, 0, 4, p_err),
              Call("celt_mode_create", 0, p_err, opts.frameSize, mode)>>
      t1 == t0 \o <<Call(create, mode, p_err, opts.channels, coder)>>
      fin == <<Call("free", 0, p_err, 0, 0)>>
  IN IF verr # NoError THEN Throw("Error", verr, <<>>)
     ELSE IF mode = 0 THEN Throw("Error", stringifyError(CELT_BAD_ARG), t0 \o fin)
     ELSE IF coder = 0
       THEN Throw("Error", stringifyError(CELT_BAD_ARG),
                  t1 \o <<Call("celt_mode_destroy", mode, 0, 0, 0)>> \o fin)
     ELSE Return(kind, 0, t1 \o fin)

\* new Encoder(opts) / new Decoder(opts) for the Session s; a names the
\* pair of handles the engine hands out if it creates the mode and the state
ConstructAt(s, a, kind, opts, refuseMode, refuseCoder) ==
  /\ sess[s].status = "unborn"
  /\ LET lib == LibOf(s, opts)
         res == Construct_result(a, kind, opts, heap[lib], refuseMode, refuseCoder)
     IN /\ sess' = [sess EXCEPT ![s] =
                      IF res.outcome = "return"
                        THEN [status |-> "live", kind |-> kind, rate |-> opts.rate,
                              frameSize |-> opts.frameSize, channels |-> opts.channels,
                              unsafe |-> opts.unsafe, lib |-> lib,
                              mode |-> res.trace[2].r, coder |-> res.trace[3].r]
                        ELSE [UnbornSession EXCEPT !.status = "failed"]]
        /\ libs' = IF res.trace # <<>> THEN libs \cup {lib} ELSE libs
        /\ heap' = HeapAfter(heap, lib, res.trace)
        /\ alive' = AliveAfter(alive, res.trace)
        /\ freed' = FreedAfter(freed, res.trace)
        /\ last' = [op |-> "construct", s |-> s, kind |-> kind, arg |-> opts,
                    res |-> res]
  /\ UNCHANGED <<destroys, calls, strm, wire>>

Construct(s, kind, opts, refuseMode, refuseCoder) ==
  ConstructAt(s, s, kind, opts, refuseMode, refuseCoder)


(***************************************************************************)
(* Encoder.prototype.encode                                                *)
(***************************************************************************)
Frame(type, length) == [type |-> type, length |-> length]

BytesPerElement(type) == IF type = "Float32Array" THEN 4 ELSE 2

\* the formal parameters of Encoder.prototype.encode
EncodeParams == <<"pcm">>

\* the names declared with var inside encode
EncodeLocals == {"encode", "p_pcm", "p_data", "len"}

\* the names of the module scope of the encoder file
ModuleScope == {"libceltjs", "utils", "util", "extend", "Transform", "e",
                "Encoder", "EncoderStream"}

\* does an identifier used in the body of encode resolve to a binding
Resolves(name) ==
  \/ \E i \in 1..Len(EncodeParams) : EncodeParams[i] = name
  \/ name \in EncodeLocals
  \/ name \in ModuleScope

\* the value bound to a formal parameter by a call with the arguments args
Param(name, args) ==
  LET i == CHOOSE j \in 1..Len(EncodeParams) : EncodeParams[j] = name
  IN IF i <= Len(args) THEN args[i] ELSE Undefined

\* _celt_encode / _celt_encode_float: a negative status, or the number of
\* bytes written, at most nbCompressedBytes
celt_encode(coderAlive, nbCompressedBytes, status) ==
  IF status < 0 THEN status
  ELSE IF status > nbCompressedBytes THEN nbCompressedBytes
  ELSE status

\* the frame-size test of encode, accepting frames that are too long
SizeMismatch_tooShort(this, pcm) == pcm.length < this.frameSize * this.channels

\* the frame-size test of encode
SizeMismatch(this, pcm) == pcm.length # this.frameSize * this.channels

\* an encode that frees the sample buffer only when it returns
Encoder_encode_leakOnError(this, args, h, coderAlive, status) ==
  LET pcm == Param("pcm", args)
  IN IF SizeMismatch(this, pcm)
       THEN Throw("Error", "frames must be exactly of size frameSize * channels", <<>>)
     ELSE IF pcm.type \notin {"Float32Array", "Int16Array"}
       THEN Throw("TypeError", "pcm must be Int16Array or Float32Array", <<>>)
     ELSE
       LET width == BytesPerElement(pcm.type)
           fname == IF pcm.type = "Float32Array" THEN "celt_encode_float" ELSE "celt_encode"
           p_pcm == Malloc(h, pcm.length * width, FALSE)
           t1 == <<Call("malloc", 0, 0, pcm.length * width, p_pcm)>>
           freePcm == IF p_pcm # NullPtr THEN <<Call("free", 0, p_pcm, 0, 0)>> ELSE <<>>
       IN IF ~Resolves("compressedSize")
            THEN Throw("ReferenceError", "compressedSize is not defined", t1)
          ELSE
            LET compressedSize == Param("compressedSize", args)
                p_data == Malloc(h \cup {p_pcm}, compressedSize, FALSE)
                len == celt_encode(coderAlive, compressedSize, status)
                t2 == t1 \o <<Call("malloc", 0, 0, compressedSize, p_data),
                              Call(fname, this.coder, p_data, compressedSize, len)>>
                freeData == <<Call("free", 0, p_data, 0, 0)>>
            IN IF len < 0
                 THEN Throw("Error", stringifyError(len), t2 \o freeData)
               ELSE Return("Buffer", len, t2 \o freeData \o freePcm)

\* an encode that takes whatever is not a Float32Array for 16-bit samples
Encoder_encode_duckTyped(this, args, h, coderAlive, status) ==
  LET pcm == Param("pcm", args)
  IN IF SizeMismatch(this, pcm)
       THEN Throw("Error", "frames must be exactly of size frameSize * channels", <<>>)
     ELSE
       LET width == BytesPerElement(pcm.type)
           fname == IF pcm.type = "Float32Array" THEN "celt_encode_float" ELSE "celt_encode"
           p_pcm == Malloc(h, pcm.length * width, FALSE)
           t1 == <<Call("malloc", 0, 0, pcm.length * width, p_pcm)>>
           freePcm == IF p_pcm # NullPtr THEN <<Call("free", 0, p_pcm, 0, 0)>> ELSE <<>>
       IN IF ~Resolves("compressedSize")
            THEN Throw("ReferenceError", "compressedSize is not defined", t1 \o freePcm)
          ELSE
            LET compressedSize == Param("compressedSize", args)
                p_data == Malloc(h \cup {p_pcm}, compressedSize, FALSE)
                len == celt_encode(coderAlive, compressedSize, status)
                t2 == t1 \o <<Call("malloc", 0, 0, compressedSize, p_data),
                              Call(fname, this.coder, p_data, compressedSize, len)>>
                freeData == <<Call("free", 0, p_data, 0, 0)>>
            IN IF len < 0
                 THEN Throw("Error", stringifyError(len), t2 \o freeData \o freePcm)
               ELSE Return("Buffer", len, t2 \o freeData \o freePcm)

\* encode(pcm): args are the arguments of the call, h the native heap,
\* status what the engine answers if it is reached
Encoder_encode(this, args, h, coderAlive, status) ==
  LET pcm == Param("pcm", args)
  IN IF SizeMismatch(this, pcm)
       THEN Throw("Error", "frames must be exactly of size frameSize * channels", <<>>)
     ELSE IF pcm.type \notin {"Float32Array", "Int16Array"}
       THEN Throw("TypeError", "pcm must be Int16Array or Float32Array", <<>>)
     ELSE
       LET width == BytesPerElement(pcm.type)
           fname == IF pcm.type = "Float32Array" THEN "celt_encode_float" ELSE "celt_encode"
           p_pcm == Malloc(h, pcm.length * width, FALSE)
           t1 == <<Call("malloc", 0, 0, pcm.length * width, p_pcm)>>
           freePcm == IF p_pcm # NullPtr THEN <<Call("free", 0, p_pcm, 0, 0)>> ELSE <<>>
       IN IF ~Resolves("compressedSize")
            THEN Throw("ReferenceError", "compressedSize is not defined", t1 \o freePcm)
          ELSE
            LET compressedSize == Param("compressedSize", args)
                p_data == Malloc(h \cup {p_pcm}, compressedSize, FALSE)
                len == celt_encode(coderAlive, compressedSize, status)
                t2 == t1 \o <<Call("malloc", 0, 0, compressedSize, p_data),
                              Call(fname, this.coder, p_data, compressedSize, len)>>
                freeData == <<Call("free", 0, p_data, 0, 0)>>
            IN IF len < 0
                 THEN Throw("Error", stringifyError(len), t2 \o freeData \o freePcm)
               ELSE Return("Buffer", len, t2 \o freeData \o freePcm)

Encode(s, pcm, targetPacketSize, status) ==
  /\ sess[s].status = "live"
  /\ sess[s].kind = "Encoder"
  /\ calls[s] < MaxCalls
  /\ LET this == sess[s]
         res == Encoder_encode(this, <<pcm, targetPacketSize>>, heap[this.lib],
                               this.coder \in alive, status)
     IN /\ heap' = HeapAfter(heap, this.lib, res.trace)
        /\ calls' = [calls EXCEPT ![s] = @ + CountF(res.trace, CodecCalls)]
        /\ wire' = IF res.outcome = "return"
                     THEN Append(wire, [from |-> s, length |-> res.len])
                   ELSE wire
        /\ last' = [op |-> "encode", s |-> s, kind |-> "Encoder",
                    arg |-> [pcm |-> pcm, size |-> targetPacketSize], res |-> res]
  /\ UNCHANGED <<sess, libs, alive, freed, destroys, strm>>

(***************************************************************************)
(* Decoder.prototype.decodeInt16 / decodeFloat32 / _decode                 *)
(***************************************************************************)
Null == [type |-> "null", length |-> 0, ok |-> FALSE]

Packet(length, ok) == [type |-> "Buffer", length |-> length, ok |-> ok]

\* _celt_decode / _celt_decode_float: with no data pointer the engine
\* conceals the lost frame and succeeds; a packet decodes or is refused.
\* On a destroyed state the call is undefined: ub is what it then answers.
celt_decode(coderAlive, p_data, ok, ub) ==
  IF ~coderAlive THEN ub
  ELSE IF p_data = NullPtr THEN CELT_OK
  ELSE IF ok THEN CELT_OK
  ELSE CELT_BAD_ARG

\* the size of the output buffer, leaving the channels out
PcmSize_noChannels(this, bps) == this.frameSize * bps

\* the size in bytes of the output buffer of _decode
PcmSize(this, bps) == this.frameSize * bps * this.channels

\* a _decode that frees the packet buffer only when the engine succeeds
Decoder_decode_leakOnError(this, data, bps, fname, h, coderAlive, nullOnZero, ub) ==
  LET pcmSize == PcmSize(this, bps)
      p_pcm == Malloc(h, pcmSize, nullOnZero)
      t0 == <<Call("malloc", 0, 0, pcmSize, p_pcm)>>
      h1 == h \cup {p_pcm}
      freePcm == <<Call("free", 0, p_pcm, 0, 0)>>
  IN IF data.type = "null"
       THEN LET ret == celt_decode(coderAlive, NullPtr, FALSE, ub)
                t1 == t0 \o <<Call(fname, this.coder, NullPtr, 0, ret)>>
            IN IF ret < 0 THEN Throw("Error", stringifyError(ret), t1 \o freePcm)
               ELSE Return("ArrayBuffer", pcmSize, t1 \o freePcm)
     ELSE IF data.type = "Buffer"
       THEN LET data_len == data.length
                p_data == Malloc(h1, data_len, nullOnZero)
                ret == celt_decode(coderAlive, p_data, data.ok, ub)
                t1 == t0 \o <<Call("malloc", 0, 0, data_len, p_data),
                              Call(fname, this.coder, p_data, data_len, ret)>>
                freeData == IF p_data # NullPtr THEN <<Call("free", 0, p_data, 0, 0)>>
                            ELSE <<>>
            IN IF ret < 0
                 THEN Throw("Error", stringifyError(ret), t1 \o freePcm)
               ELSE Return("ArrayBuffer", pcmSize, t1 \o freeData \o freePcm)
     ELSE Throw("TypeError", "data must be Buffer or null", t0 \o freePcm)

\* _decode(data, bps, doDecode): the ArrayBuffer left by the engine
Decoder_decode(this, data, bps, fname, h, coderAlive, nullOnZero, ub) ==
  LET pcmSize == PcmSize(this, bps)
      p_pcm == Malloc(h, pcmSize, nullOnZero)
      t0 == <<Call("malloc", 0, 0, pcmSize, p_pcm)>>
      h1 == h \cup {p_pcm}
      freePcm == <<Call("free", 0, p_pcm, 0, 0)>>
  IN IF data.type = "null"
       THEN LET ret == celt_decode(coderAlive, NullPtr, FALSE, ub)
                t1 == t0 \o <<Call(fname, this.coder, NullPtr, 0, ret)>>
            IN IF ret < 0 THEN Throw("Error", stringifyError(ret), t1 \o freePcm)
               ELSE Return("ArrayBuffer", pcmSize, t1 \o freePcm)
     ELSE IF data.type = "Buffer"
       THEN LET data_len == data.length
                p_data == Malloc(h1, data_len, nullOnZero)
                ret == celt_decode(coderAlive, p_data, data.ok, ub)
                t1 == t0 \o <<Call("malloc", 0, 0, data_len, p_data),
                              Call(fname, this.coder, p_data, data_len, ret)>>
                freeData == IF p_data # NullPtr THEN <<Call("free", 0, p_data, 0, 0)>>
                            ELSE <<>>
            IN IF ret < 0
                 THEN Throw("Error", stringifyError(ret), t1 \o freeData \o freePcm)
               ELSE Return("ArrayBuffer", pcmSize, t1 \o freeData \o freePcm)
     ELSE Throw("TypeError", "data must be Buffer or null", t0 \o freePcm)

\* new Int16Array(buffer) / new Float32Array(buffer) over a whole ArrayBuffer
TypedArray(type, res) ==
  IF res.outcome # "return" THEN res
  ELSE IF res.len % BytesPerElement(type) # 0
    THEN Throw("RangeError", "byte length should be a multiple of the element size",
               res.trace)
  ELSE Return(type, res.len \div BytesPerElement(type), res.trace)

Decoder_decodeInt16(this, data, h, coderAlive, nullOnZero, ub) ==
  TypedArray("Int16Array",
             Decoder_decode(this, data, 2, "celt_decode", h, coderAlive, nullOnZero, ub))

Decoder_decodeFloat32(this, data, h, coderAlive, nullOnZero, ub) ==
  TypedArray("Float32Array",
             Decoder_decode(this, data, 4, "celt_decode_float", h, coderAlive,
                            nullOnZero, ub))

Decoded(s, op, data, res) ==
  /\ heap' = HeapAfter(heap, sess[s].lib, res.trace)
  /\ calls' = [calls EXCEPT ![s] = @ + CountF(res.trace, CodecCalls)]
  /\ last' = [op |-> op, s |-> s, kind |-> "Decoder", arg |-> data, res |-> res]
  /\ UNCHANGED <<sess, libs, alive, freed, destroys, strm, wire>>

DecodeInt16(s, data, nullOnZero, ub) ==
  /\ sess[s].status = "live"
  /\ sess[s].kind = "Decoder"
  /\ calls[s] < MaxCalls
  /\ Decoded(s, "decodeInt16", data,
             Decoder_decodeInt16(sess[s], data, heap[sess[s].lib],
                                 sess[s].coder \in alive, nullOnZero, ub))

DecodeFloat32(s, data, nullOnZero, ub) ==
  /\ sess[s].status = "live"
  /\ sess[s].kind = "Decoder"
  /\ calls[s] < MaxCalls
  /\ Decoded(s, "decodeFloat32", data,
             Decoder_decodeFloat32(sess[s], data, heap[sess[s].lib],
                                   sess[s].coder \in alive, nullOnZero, ub))

(***************************************************************************)
(* Encoder.prototype.destroy / Decoder.prototype.destroy                   *)
(***************************************************************************)
\* a destroy that does not look at the unsafe flag
Session_destroy_always(this) ==
  Return("undefined", 0,
         <<Call(IF this.kind = "Encoder" THEN "celt_encoder_destroy"
                ELSE "celt_decoder_destroy", this.coder, 0, 0, 0),
           Call("celt_mode_destroy", this.mode, 0, 0, 0)>>)

\* a destroy that releases the coder state and forgets the mode
Session_destroy_coderOnly(this) ==
  IF this.unsafe
    THEN Return("undefined", 0,
                <<Call(IF this.kind = "Encoder" THEN "celt_encoder_destroy"
                       ELSE "celt_decoder_destroy", this.coder, 0, 0, 0)>>)
  ELSE Return("undefined", 0, <<>>)

Session_destroy(this) ==
  IF this.unsafe
    THEN Return("undefined", 0,
                <<Call(IF this.kind = "Encoder" THEN "celt_encoder_destroy"
                       ELSE "celt_decoder_destroy", this.coder, 0, 0, 0),
                  Call("celt_mode_destroy", this.mode, 0, 0, 0)>>)
  ELSE Return("undefined", 0, <<>>)

Destroy(s) ==
  /\ sess[s].status = "live"
  /\ destroys[s] < MaxDestroy
  /\ LET res == Session_destroy(sess[s])
     IN /\ alive' = AliveAfter(alive, res.trace)
        /\ freed' = FreedAfter(freed, res.trace)
        /\ last' = [op |-> "destroy", s |-> s, kind |-> sess[s].kind, arg |-> Null,
                    res |-> res]
  /\ destroys' = [destroys EXCEPT ![s] = @ + 1]
  /\ UNCHANGED <<sess, libs, heap, calls, strm, wire>>

\* The Session becomes unreachable and is reclaimed by the runtime.  The
\* constructors register no finalizer, so no native call is made.  A Session
\* that is not unsafe owns its engine instance (libceltjs()), which goes with
\* it, native heap and handles included; the global instance stays.
Reclaim(s) ==
  /\ sess[s].status = "live"
  /\ sess' = [sess EXCEPT ![s].status = "reclaimed"]
  /\ IF sess[s].unsafe
       THEN UNCHANGED <<libs, heap, alive>>
     ELSE /\ libs' = libs \ {sess[s].lib}
          /\ heap' = [heap EXCEPT ![sess[s].lib] = {}]
          /\ alive' = alive \ {sess[s].mode, sess[s].coder}
  /\ last' = [op |-> "reclaim", s |-> s, kind |-> sess[s].kind, arg |-> Null,
              res |-> Return("undefined", 0, <<>>)]
  /\ UNCHANGED <<freed, destroys, calls, strm, wire>>

(***************************************************************************)
(* Stream adapters: EncoderStream, DecoderStream                           *)
(***************************************************************************)
NoStream ==
  [status |-> "none", mode |-> "", packetSize |-> 0, ins |-> <<>>, out |-> <<>>,
   errs |-> 0, ops |-> 0, cbs |-> 0, escaped |-> 0]

Chunk(length, offset, ok) == [length |-> length, offset |-> offset, ok |-> ok]

\* JS values given as mode: the type and the text of the value
JsString(v) == [t |-> "string", v |-> v]
JsNumber(v) == [t |-> "number", v |-> v]
JsUndefined == [t |-> "undefined", v |-> "undefined"]

\* the strings ToNumber reads as the number of the same text
NumericStrings == {"0", "16", "32", "123"}

\* x == str for a string str: strings compare by text, a number compares
\* with ToNumber(str), which is NaN unless str is numeric, and undefined
\* equals no string
LooseEquals(x, str) ==
  IF x.t = "string" THEN x.v = str
  ELSE IF x.t = "number" THEN str \in NumericStrings /\ x.v = str
  ELSE FALSE

\* a mode dispatch that falls back to Int16 instead of throwing
Stream_result_fallback(mode) ==
  IF LooseEquals(mode, "Float32") THEN Return("Float32Array", 0, <<>>)
  ELSE Return("Int16Array", 0, <<>>)

\* function EncoderStream(encoder, mode, packetSize) and
\* function DecoderStream(decoder, mode): the mode dispatch
Stream_result(mode) ==
  IF LooseEquals(mode, "Float32") THEN Return("Float32Array", 0, <<>>)
  ELSE IF LooseEquals(mode, "Int16") THEN Return("Int16Array", 0, <<>>)
  ELSE Throw("TypeError", "mode cannot be", <<>>)

Stream(s, mode, packetSize) ==
  /\ sess[s].status = "live"
  /\ strm[s].status = "none"
  /\ LET res == Stream_result(mode)
     IN /\ strm' = [strm EXCEPT ![s] =
                      IF res.outcome = "return"
                        THEN [NoStream EXCEPT !.status = "open", !.mode = res.type,
                                              !.packetSize =
                                                 IF sess[s].kind = "Encoder"
                                                   THEN packetSize ELSE 0]
                        ELSE @]
        /\ last' = [op |-> "stream", s |-> s, kind |-> sess[s].kind,
                    arg |-> [mode |-> mode, size |-> packetSize], res |-> res]
  /\ UNCHANGED <<sess, libs, heap, alive, freed, destroys, calls, wire>>

\* what one call of _transform did: the Session operation's result, whether
\* the operation was invoked and with which arguments, and how the callback
\* was called
Transformed(res, ops, cb, bytes, args) ==
  [res |-> res, ops |-> ops, cb |-> cb, bytes |-> bytes, args |-> args]

\* EncoderStream.prototype._transform
EncoderStream_transform(stream, encoder, chunk, h, coderAlive, status) ==
  LET bpe == BytesPerElement(stream.mode)
  IN IF chunk.offset % bpe # 0
       THEN Transformed(Throw("RangeError", "start offset should be a multiple of the element size", <<>>),
                        0, "none", 0, <<>>)
     ELSE
       LET view == Frame(stream.mode, chunk.length \div bpe)
           result == Encoder_encode(encoder, <<view, stream.packetSize>>, h,
                                    coderAlive, status)
       IN IF result.outcome = "throw"
            THEN Transformed(result, 1, "error", 0, <<view, stream.packetSize>>)
          ELSE Transformed(result, 1, "data", result.len, <<view, stream.packetSize>>)

\* DecoderStream.prototype._transform
DecoderStream_transform(stream, decoder, chunk, h, coderAlive, nullOnZero, ub) ==
  LET data == Packet(chunk.length, chunk.ok)
      array == IF stream.mode = "Float32Array"
                 THEN Decoder_decodeFloat32(decoder, data, h, coderAlive, nullOnZero, ub)
               ELSE Decoder_decodeInt16(decoder, data, h, coderAlive, nullOnZero, ub)
  IN IF array.outcome = "throw"
       THEN Transformed(array, 1, "error", 0, <<data>>)
     ELSE Transformed(array, 1, "data", array.len * BytesPerElement(array.type), <<data>>)

\* A chunk written to the stream reaches _transform: callback(err) makes the
\* stream emit 'error', callback(null, result) pushes result to the consumer.
\* The adapter passes no options to Transform, so whether the base class
\* still delivers chunks after an error is left to the runtime: it may (no
\* automatic destroy) or may not (then the run has no further Write).  After
\* an exception escaped _transform the base class is left mid-write and
\* delivers nothing more.
Write(s, chunk, status, nullOnZero, ub) ==
  /\ sess[s].status = "live"
  /\ strm[s].status = "open"
  /\ Len(strm[s].ins) < MaxChunks
  /\ strm[s].escaped = 0
  /\ LET this == sess[s]
         stream == strm[s]
         t == IF this.kind = "Encoder"
                THEN EncoderStream_transform(stream, this, chunk, heap[this.lib],
                                             this.coder \in alive, status)
              ELSE DecoderStream_transform(stream, this, chunk, heap[this.lib],
                                           this.coder \in alive, nullOnZero, ub)
         k == Len(stream.ins) + 1
     IN /\ strm' = [strm EXCEPT ![s] =
                      [@ EXCEPT !.ins = Append(@, chunk),
                                !.out = IF t.cb = "data"
                                          THEN Append(@, [k |-> k, length |-> t.bytes])
                                        ELSE @,
                                !.errs = IF t.cb = "error" THEN @ + 1 ELSE @,
                                !.cbs = IF t.cb # "none" THEN @ + 1 ELSE @,
                                !.ops = @ + t.ops,
                                !.escaped = IF t.cb = "none" THEN @ + 1 ELSE @]]
        /\ heap' = HeapAfter(heap, this.lib, t.res.trace)
        /\ calls' = [calls EXCEPT ![s] = @ + CountF(t.res.trace, CodecCalls)]
        /\ last' = [op |-> "write", s |-> s, kind |-> this.kind, arg |-> chunk,
                    res |-> t.res, call |-> t.args]
  /\ UNCHANGED <<sess, libs, alive, freed, destroys, wire>>

(***************************************************************************)
(* The inputs of a run.                                                    *)
(***************************************************************************)
Channels == {0, 1, 2}
Rates == {42, 48000}
FrameSizes == {0, 256}
PacketSizes == {960}
Modes == {JsString("Int16"), JsString("Float32"), JsString("asd"), JsString("int16"),
          JsNumber("123"), JsNumber("16"), JsUndefined}

FrameTypes == {"Int16Array", "Float32Array", "Array", "Buffer", "String"}
FrameLengths(s) ==
  {0, 42, sess[s].frameSize * sess[s].channels, sess[s].frameSize * sess[s].channels + 1}

\* what encode is handed: typed arrays and other values with a length of
\* every kind, and an ArrayBuffer, which has no length property
Frames(s) ==
  {Frame(ty, n) : ty \in FrameTypes, n \in FrameLengths(s)}
    \cup {Frame("ArrayBuffer", Undefined)}

\* packets handed to a decoder: those an encoder of the same configuration
\* produced, and arbitrary ones that the engine accepts or refuses
SameConfig(a, b) ==
  /\ sess[a].rate = sess[b].rate
  /\ sess[a].frameSize = sess[b].frameSize
  /\ sess[a].channels = sess[b].channels

Datas(s) ==
  {Null, Packet(4, TRUE), Packet(4, FALSE), [type |-> "String", length |-> 4, ok |-> FALSE]}
  \cup {Packet(wire[i].length, SameConfig(wire[i].from, s)) : i \in 1..Len(wire)}

\* chunks written to an encoder stream: one whole frame, a short one, a whole
\* frame at an odd byte offset, a whole frame and one byte more;
\* to a decoder stream: an empty chunk, a packet the engine accepts or refuses
Chunks(s) ==
  IF sess[s].kind = "Encoder"
    THEN LET whole == sess[s].frameSize * sess[s].channels * BytesPerElement(strm[s].mode)
         IN {Chunk(whole, 0, FALSE), Chunk(84, 0, FALSE), Chunk(whole, 1, FALSE),
             Chunk(whole + 1, 0, FALSE)}
  ELSE {Chunk(0, 0, TRUE), Chunk(0, 0, FALSE), Chunk(4, 0, TRUE), Chunk(4, 0, FALSE)}

\* what the engine's encode answers when it is reached
EngineStatus == IF Resolves("compressedSize") THEN {CELT_BAD_ARG, 1, 960} ELSE {960}

\* what a codec call on a destroyed state may answer
UbStatus(s) ==
  IF sess[s].coder \in alive THEN {CELT_OK} ELSE {CELT_OK, CELT_BAD_ARG}

\* what _malloc(0) may answer
NullOnZero(length) == IF length = 0 THEN BOOLEAN ELSE {FALSE}

Init ==
  /\ sess = [s \in Sessions |-> UnbornSession]
  /\ libs = {GlobalLib}
  /\ heap = [l \in Libs |-> {}]
  /\ alive = {}
  /\ freed = [h \in Handles |-> 0]
  /\ destroys = [s \in Sessions |-> 0]
  /\ calls = [s \in Sessions |-> 0]
  /\ strm = [s \in Sessions |-> NoStream]
  /\ wire = <<>>
  /\ last = [op |-> "init", s |-> 0, kind |-> "", arg |-> Null, res |-> NoResult]

\* the Sessions a run of Spec operates
Active == {1}

DoConstruct ==
  \E s \in Active, kind \in {"Encoder", "Decoder"}, ch \in Channels, r \in Rates,
     fs \in FrameSizes, u \in BOOLEAN, rm \in BOOLEAN, rc \in BOOLEAN :
       Construct(s, kind, Opts(r, fs, ch, u), rm, rc)

DoEncode ==
  \E s \in Active, sz \in PacketSizes, st \in EngineStatus :
     \E pcm \in Frames(s) : Encode(s, pcm, sz, st)

DoDecodeInt16 ==
  \E s \in Active : \E d \in Datas(s), ub \in UbStatus(s) :
     \E nz \in NullOnZero(d.length) : DecodeInt16(s, d, nz, ub)

DoDecodeFloat32 ==
  \E s \in Active : \E d \in Datas(s), ub \in UbStatus(s) :
     \E nz \in NullOnZero(d.length) : DecodeFloat32(s, d, nz, ub)

DoDestroy == \E s \in Active : Destroy(s)

DoReclaim == \E s \in Active : Reclaim(s)

DoStream == \E s \in Active, m \in Modes, sz \in PacketSizes : Stream(s, m, sz)

DoWrite ==
  \E s \in Active, st \in EngineStatus : \E c \in Chunks(s), ub \in UbStatus(s) :
     \E nz \in NullOnZero(c.length) : Write(s, c, st, nz, ub)

Next ==
  \/ DoConstruct
  \/ DoEncode
  \/ DoDecodeInt16
  \/ DoDecodeFloat32
  \/ DoDestroy
  \/ DoReclaim
  \/ DoStream
  \/ DoWrite

Spec == Init /\ [][Next]_vars

(***************************************************************************)
(* Construction alone, over a wider range of options.                      *)
(***************************************************************************)
AllChannels == {-1, 0, 1, 2, 3}
AllRates == {0, 42, 31998, 31999, 32000, 32001, 48000, 48002, 95999, 96000, 96001, 96002}
AllFrameSizes == {0, 63, 64, 256, 512, 514}

ConstructAny ==
  \E s \in Active, kind \in {"Encoder", "Decoder"}, ch \in AllChannels, r \in AllRates,
     fs \in AllFrameSizes, u \in BOOLEAN, rm \in BOOLEAN, rc \in BOOLEAN :
       Construct(s, kind, Opts(r, fs, ch, u), rm, rc)

NextConstruct == ConstructAny

SpecConstruct == Init /\ [][NextConstruct]_vars

(***************************************************************************)
(* Two unsafe Sessions on the shared engine instance (libceltjs.instance). *)
(***************************************************************************)
\* an allocator that hands out any pair of handles, live ones included
FreeSlots_any == Sessions

SharedOpts == Opts(48000, 256, 1, TRUE)

\* the handle pairs the engine's allocator can hand out: those it holds no
\* live mode or state at, the ones released by destroy calls included
FreeSlots ==
  {a \in Sessions : ModeHandle(a) \notin alive /\ CoderHandle(a) \notin alive}

SharedConstruct ==
  \E s \in Sessions, kind \in {"Encoder", "Decoder"} :
     \E a \in FreeSlots : ConstructAt(s, a, kind, SharedOpts, FALSE, FALSE)

SharedEncode ==
  \E s \in Sessions, ty \in {"Int16Array", "Array"}, st \in EngineStatus :
     Encode(s, Frame(ty, SharedOpts.frameSize * SharedOpts.channels), 960, st)

SharedDecode ==
  \E s \in Sessions, d \in {Null, Packet(4, TRUE)} :
     \E ub \in UbStatus(s), nz \in NullOnZero(0) : DecodeInt16(s, d, nz, ub)

SharedDestroy == \E s \in Sessions : Destroy(s)

NextShared == SharedConstruct \/ SharedEncode \/ SharedDecode \/ SharedDestroy

SpecShared == Init /\ [][NextShared]_vars

(***************************************************************************)
(* Properties                                                              *)
(***************************************************************************)
LiveCoder(s) == sess[s].status = "live" /\ sess[s].coder \in alive

IsPcm(frame) == frame.type \in {"Int16Array", "Float32Array"}

FrameLength(s) == sess[s].frameSize * sess[s].channels

SizeErrorMsg == "frames must be exactly of size frameSize * channels"

\* C1: encode of a frame of exactly frameSize x channels Int16 or Float32
\* samples on a valid Encoder returns a packet of at most targetPacketSize
\* bytes and does not throw.
C1_EncodeReturnsPacket ==
  (/\ last.op = "encode"
   /\ LiveCoder(last.s)
   /\ IsPcm(last.arg.pcm)
   /\ last.arg.pcm.length = FrameLength(last.s))
  => (/\ last.res.outcome = "return"
      /\ last.res.len <= last.arg.size)

\* C2: encode of an Int16Array or Float32Array whose length differs from
\* frameSize x channels throws the size error before any native call: no
\* marshaling buffer is allocated and the engine is not invoked.
C2_SizeErrorFirst ==
  (/\ last.op = "encode"
   /\ IsPcm(last.arg.pcm)
   /\ last.arg.pcm.length # FrameLength(last.s))
  => (/\ last.res.outcome = "throw"
      /\ last.res.msg = SizeErrorMsg
      /\ last.res.trace = <<>>
      /\ heap[sess[last.s].lib] = {})

C2_Witness ==
  /\ last.op = "encode"
  /\ last.arg.pcm = Frame("Float32Array", 0)
  /\ FrameLength(last.s) = 512
  /\ last.res.outcome = "throw"

ChannelsDiagnostics == {"channels must be greater than 0"}

RateDiagnostics == {"rate must be in range 32000 - 96000", "rate must be even"}

\* C3: construction with channels < 1 throws an error that names the channels
\* option, whatever rate, frameSize and unsafe are.
C3_ChannelsRejected ==
  (last.op = "construct" /\ last.arg.channels < 1)
  => (/\ last.res.outcome = "throw"
      /\ last.res.msg \in ChannelsDiagnostics
      /\ sess[last.s].status = "failed")

C3_Witness ==
  /\ last.op = "construct"
  /\ last.arg.channels = 0
  /\ last.arg.rate = 42
  /\ last.arg.unsafe
  /\ last.res.msg \in ChannelsDiagnostics

\* C4: construction with channels >= 1 and a rate below 32000, above 96000 or
\* odd throws an error that names the rate option.
C4_RateRejected ==
  (/\ last.op = "construct"
   /\ last.arg.channels >= 1
   /\ \/ last.arg.rate < 32000
      \/ last.arg.rate > 96000
      \/ last.arg.rate % 2 = 1)
  => (/\ last.res.outcome = "throw"
      /\ last.res.msg \in RateDiagnostics
      /\ sess[last.s].status = "failed")

C4_Witness ==
  /\ last.op = "construct"
  /\ last.arg.channels = 2
  /\ last.arg.rate = 32001
  /\ last.res.msg = "rate must be even"

PassesValidation(opts) ==
  /\ opts.channels >= 1
  /\ opts.rate >= 32000
  /\ opts.rate <= 96000
  /\ opts.rate % 2 = 0

\* the handles a construction obtained from the engine
CreatedBy(trace) ==
  {trace[i].r : i \in {j \in 1..Len(trace) : trace[j].f \in CreateCalls /\ trace[j].r # 0}}

OneHandle(s, trace) ==
  /\ sess[s].status = "live"
  /\ sess[s].mode # 0
  /\ sess[s].coder # 0
  /\ sess[s].mode # sess[s].coder
  /\ CreatedBy(trace) \cap alive = {sess[s].mode, sess[s].coder}

\* C5 as stated: every configuration that passes validation, with any
\* frameSize, constructs and leaves exactly one Handle allocated.
C5_ValidAlwaysConstructs ==
  (last.op = "construct" /\ PassesValidation(last.arg))
  => (last.res.outcome = "return" /\ OneHandle(last.s, last.res.trace))

\* C5 amended: a configuration that passes validation constructs exactly when
\* the engine creates both the mode and the coder state, and then leaves
\* exactly one Handle (that mode and that state) allocated; when the engine
\* returns 0 for either, construction throws and leaves no handle allocated.
C5_ConstructsIfEngineDoes ==
  (last.op = "construct" /\ PassesValidation(last.arg))
  => IF Cardinality(CreatedBy(last.res.trace)) = 2
       THEN last.res.outcome = "return" /\ OneHandle(last.s, last.res.trace)
     ELSE /\ last.res.outcome = "throw"
          /\ sess[last.s].status = "failed"
          /\ CreatedBy(last.res.trace) \cap alive = {}
          /\ heap[LibOf(last.s, last.arg)] = {}

C5_Witness ==
  /\ last.op = "construct"
  /\ last.arg = Opts(48002, 512, 2, TRUE)
  /\ last.res.outcome = "return"
  /\ Cardinality(alive) = 2

DecodeOps == {"decodeInt16", "decodeFloat32"}

\* the codec calls of a trace
CodecCallsOf(trace) == {i \in 1..Len(trace) : trace[i].f \in CodecCalls}

\* C6: on a Decoder whose state has not been destroyed, after any earlier
\* decode calls, decodeInt16(null) and decodeFloat32(null) return, call the
\* engine exactly once (without a data pointer, advancing the decoder state
\* by one frame) and yield exactly frameSize x channels samples.
C6_LossSignalDecodes ==
  [][(/\ last'.op \in DecodeOps
      /\ last'.arg = Null
      /\ LiveCoder(last'.s))
     => (/\ last'.res.outcome = "return"
         /\ last'.res.type = (IF last'.op = "decodeInt16" THEN "Int16Array"
                              ELSE "Float32Array")
         /\ last'.res.len = FrameLength(last'.s)
         /\ Cardinality(CodecCallsOf(last'.res.trace)) = 1
         /\ \A i \in CodecCallsOf(last'.res.trace) :
               /\ last'.res.trace[i].h = sess[last'.s].coder
               /\ last'.res.trace[i].p = NullPtr
               /\ last'.res.trace[i].n = 0
         /\ calls'[last'.s] = calls[last'.s] + 1)]_vars

C6_Witness ==
  /\ last.op = "decodeFloat32"
  /\ last.arg = Null
  /\ LiveCoder(last.s)
  /\ sess[last.s].channels = 2
  /\ calls[last.s] = 2
  /\ last.res.outcome = "return"
  /\ last.res.len = 512

\* C7: a valid frame encoded by an Encoder yields a packet, and decoding that
\* packet on a Decoder of identical configuration yields frameSize x channels
\* samples.
C7_RoundTrip ==
  /\ (/\ last.op = "encode"
      /\ LiveCoder(last.s)
      /\ IsPcm(last.arg.pcm)
      /\ last.arg.pcm.length = FrameLength(last.s))
     => (/\ Len(wire) > 0
         /\ wire[Len(wire)].from = last.s)
  /\ (/\ last.op \in DecodeOps
      /\ LiveCoder(last.s)
      /\ \E i \in 1..Len(wire) :
            SameConfig(wire[i].from, last.s) /\ last.arg = Packet(wire[i].length, TRUE))
     => (/\ last.res.outcome = "return"
         /\ last.res.len = FrameLength(last.s))

\* a chunk the Session operation of the stream accepts
ValidChunk(s, c) ==
  IF sess[s].kind = "Encoder"
    THEN /\ c.offset % BytesPerElement(strm[s].mode) = 0
         /\ c.length = FrameLength(s) * BytesPerElement(strm[s].mode)
  ELSE c.length > 0 /\ c.ok

\* C8: after N valid chunks were written to a stream adapter, exactly N
\* chunks have been emitted, the k-th from the k-th input, each by one
\* Session operation.
C8_OneOutputPerChunk ==
  \A s \in Sessions :
    (/\ strm[s].status = "open"
     /\ LiveCoder(s)
     /\ \A k \in 1..Len(strm[s].ins) : ValidChunk(s, strm[s].ins[k]))
    => (/\ Len(strm[s].out) = Len(strm[s].ins)
        /\ \A k \in 1..Len(strm[s].out) : strm[s].out[k].k = k
        /\ strm[s].ops = Len(strm[s].ins))

\* C9: an empty chunk written to a decoder stream reaches the engine as a
\* Loss Signal (no data pointer, length 0, as decode(null) does) and one
\* frame of frameSize x channels samples is emitted for it.
C9_EmptyChunkIsLoss ==
  (/\ last.op = "write"
   /\ last.kind = "Decoder"
   /\ last.arg.length = 0
   /\ LiveCoder(last.s))
  => (/\ last.res.outcome = "return"
      /\ Cardinality(CodecCallsOf(last.res.trace)) = 1
      /\ \A i \in CodecCallsOf(last.res.trace) :
            last.res.trace[i].p = NullPtr /\ last.res.trace[i].n = 0
      /\ Len(strm[last.s].out) > 0
      /\ strm[last.s].out[Len(strm[last.s].out)] =
           [k |-> Len(strm[last.s].ins),
            length |-> FrameLength(last.s) * BytesPerElement(strm[last.s].mode)])

\* C10: once a Session operation has failed inside a stream adapter, the
\* adapter performs no further Session operation and emits no further chunk.
C10_FaultedIsTerminal ==
  [][\A s \in Sessions :
       strm[s].errs > 0
       => (strm'[s].ops = strm[s].ops /\ strm'[s].out = strm[s].out)]_vars

ModeErrorMsg == "mode cannot be"

\* C11: Encoder.stream and Decoder.stream return a stream for the modes
\* 'Int16' and 'Float32'; for undefined, numbers and other strings they throw
\* the mode error at construction, leaving no stream and no chunk processed.
C11_ModeChecked ==
  (last.op = "stream")
  => IF last.arg.mode \in {JsString("Int16"), JsString("Float32")}
       THEN /\ last.res.outcome = "return"
            /\ strm[last.s].status = "open"
            /\ strm[last.s].mode = (IF last.arg.mode = JsString("Int16")
                                      THEN "Int16Array" ELSE "Float32Array")
            /\ strm[last.s].ins = <<>>
     ELSE /\ last.res.outcome = "throw"
          /\ last.res.error = "TypeError"
          /\ last.res.msg = ModeErrorMsg
          /\ last.res.trace = <<>>
          /\ strm[last.s] = NoStream

C11_Witness ==
  /\ last.op = "stream"
  /\ last.kind = "Decoder"
  /\ last.arg.mode = JsNumber("16")
  /\ last.res.outcome = "throw"
  /\ strm[last.s] = NoStream

Born(s) == sess[s].status \in {"live", "reclaimed"}

\* C12 as stated: over the lifetime of a Session its mode and its coder
\* state each receive exactly one engine destroy call: at reclamation for a
\* Session that is not unsafe, by the single destroy() call for an unsafe one.
C12_DestroyedExactlyOnce ==
  \A s \in Sessions :
    (/\ sess[s].status = "reclaimed"
     /\ (~sess[s].unsafe \/ destroys[s] = 1))
    => (freed[sess[s].mode] = 1 /\ freed[sess[s].coder] = 1)

\* C12 amended: the engine destroy calls a Session's mode and coder state
\* have received are, for an unsafe Session, as many as the destroy() calls
\* made on it (one each after a single call, none without a call), and for a
\* Session that is not unsafe none at all, also once it has been reclaimed.
C12_DestroyedPerCall ==
  \A s \in Sessions :
    Born(s)
    => (/\ freed[sess[s].mode] = (IF sess[s].unsafe THEN destroys[s] ELSE 0)
        /\ freed[sess[s].coder] = (IF sess[s].unsafe THEN destroys[s] ELSE 0))

C12_Witness ==
  \E s \in Sessions :
    /\ sess[s].status = "reclaimed"
    /\ sess[s].unsafe
    /\ destroys[s] = 1
    /\ freed[sess[s].mode] = 1
    /\ freed[sess[s].coder] = 1

\* the blocks a trace obtained from _malloc
MallocsOf(trace) ==
  {i \in 1..Len(trace) : trace[i].f = "malloc" /\ trace[i].r # NullPtr}

\* the _free calls of a trace that release the block p
FreesOf(trace, p) ==
  {j \in 1..Len(trace) : trace[j].f = "free" /\ trace[j].p = p}

CodecOps == {"encode", "decodeInt16", "decodeFloat32", "write"}

\* C13: a call of encode, decodeInt16 or decodeFloat32 (direct or from a
\* stream adapter), whether it returns or throws, frees every marshaling
\* buffer it allocated exactly once, after allocating it, and leaves the set
\* of outstanding native allocations as it was before the call.
C13_BuffersFreed ==
  [][(last'.op \in CodecOps)
     => (/\ heap' = heap
         /\ \A i \in MallocsOf(last'.res.trace) :
               /\ Cardinality(FreesOf(last'.res.trace, last'.res.trace[i].r)) = 1
               /\ \A j \in FreesOf(last'.res.trace, last'.res.trace[i].r) : j > i
         /\ \A j \in 1..Len(last'.res.trace) :
               (last'.res.trace[j].f = "free" /\ last'.res.trace[j].p # NullPtr)
               => \E i \in MallocsOf(last'.res.trace) :
                     last'.res.trace[i].r = last'.res.trace[j].p)]_vars

C13_Witness ==
  /\ last.op = "decodeInt16"
  /\ last.arg = Packet(4, FALSE)
  /\ last.res.outcome = "throw"
  /\ Cardinality(MallocsOf(last.res.trace)) = 2
  /\ heap[sess[last.s].lib] = {}

\* the create calls of a trace that the engine answered with 0
RefusedBy(trace) ==
  {i \in 1..Len(trace) : trace[i].f \in CreateCalls /\ trace[i].r = 0}

\* C14: when the engine returns 0 for the mode, or for the coder state after
\* the mode was created, construction throws the engine's error and leaves
\* nothing it created allocated: the error cell is freed once and a mode that
\* was created has been destroyed once.
C14_FailedConstructionReleases ==
  (last.op = "construct" /\ RefusedBy(last.res.trace) # {})
  => (/\ last.res.outcome = "throw"
      /\ last.res.msg = stringifyError(CELT_BAD_ARG)
      /\ sess[last.s].status = "failed"
      /\ heap[LibOf(last.s, last.arg)] = {}
      /\ \A i \in MallocsOf(last.res.trace) :
            Cardinality(FreesOf(last.res.trace, last.res.trace[i].r)) = 1
      /\ CreatedBy(last.res.trace) \cap alive = {}
      /\ \A h \in CreatedBy(last.res.trace) : freed[h] = 1)

C14_Witness ==
  /\ last.op = "construct"
  /\ last.res.outcome = "throw"
  /\ CreatedBy(last.res.trace) = {ModeHandle(last.s)}
  /\ freed[ModeHandle(last.s)] = 1
  /\ alive = {}

\* C15: the option checks come before every allocation: a construction that
\* throws a configuration error has made no native call, created no engine
\* instance, allocated no memory and created no mode and no coder state.
C15_ValidationFirst ==
  [][(last'.op = "construct" /\ Validate(last'.arg) # NoError)
     => (/\ last'.res.outcome = "throw"
         /\ last'.res.msg = Validate(last'.arg)
         /\ last'.res.trace = <<>>
         /\ libs' = libs
         /\ heap' = heap
         /\ alive' = alive
         /\ freed' = freed)]_vars

C15_Witness ==
  /\ last.op = "construct"
  /\ Validate(last.arg) # NoError
  /\ ~last.arg.unsafe
  /\ last.res.trace = <<>>
  /\ libs = {GlobalLib}

\* C16: destroy() on a Session that is not unsafe makes no engine call and
\* changes nothing: Session, handles, native memory and stream are as before
\* the call.  destroy() on an unsafe Session issues the destroy call of its
\* coder state and then of its mode, and returns when these were live.
C16_SafeDestroyIsNoop ==
  [][(last'.op = "destroy")
     => IF ~sess[last'.s].unsafe
          THEN /\ last'.res.outcome = "return"
               /\ last'.res.trace = <<>>
               /\ UNCHANGED <<sess, libs, heap, alive, freed, calls, strm, wire>>
          ELSE /\ Len(last'.res.trace) = 2
               /\ last'.res.trace[1].f \in DestroyCalls \ {"celt_mode_destroy"}
               /\ last'.res.trace[1].h = sess[last'.s].coder
               /\ last'.res.trace[2].f = "celt_mode_destroy"
               /\ last'.res.trace[2].h = sess[last'.s].mode
               /\ (sess[last'.s].coder \in alive => last'.res.outcome = "return")]_vars

C16_Witness ==
  /\ last.op = "destroy"
  /\ ~sess[last.s].unsafe
  /\ destroys[last.s] = 1
  /\ LiveCoder(last.s)
  /\ sess[last.s].mode \in alive

\* C17: for every chunk written to an encoder stream, encode is called
\* exactly once, with the chunk's bytes seen as samples of the stream's
\* representation (as many as the chunk's byte length divided by the sample
\* width) and with the packetSize given at construction, and the buffer that
\* encode returned is what the stream emits for the chunk.
C17_ChunkEncodedOnce ==
  [][(last'.op = "write" /\ last'.kind = "Encoder")
     => (/\ strm'[last'.s].ops = strm[last'.s].ops + 1
         /\ Len(last'.call) = 2
         /\ last'.call[1].type = strm[last'.s].mode
         /\ last'.call[1].length * BytesPerElement(strm[last'.s].mode) = last'.arg.length
         /\ last'.call[2] = strm[last'.s].packetSize
         /\ (last'.res.outcome = "return"
             => strm'[last'.s].out =
                  Append(strm[last'.s].out,
                         [k |-> Len(strm'[last'.s].ins), length |-> last'.res.len])))]_vars

\* C18: encode refuses every argument that is neither an Int16Array nor a
\* Float32Array (plain array, Buffer, string, ArrayBuffer), of whatever
\* length, the length frameSize x channels included: it throws the size error
\* or the TypeError and makes no native call, the engine's encode least of all.
C18_NonPcmRefused ==
  (last.op = "encode" /\ ~IsPcm(last.arg.pcm))
  => (/\ last.res.outcome = "throw"
      /\ \/ last.res.error = "Error" /\ last.res.msg = SizeErrorMsg
         \/ /\ last.res.error = "TypeError"
            /\ last.res.msg = "pcm must be Int16Array or Float32Array"
      /\ CodecCallsOf(last.res.trace) = {}
      /\ last.res.trace = <<>>)

C18_Witness ==
  /\ last.op = "encode"
  /\ last.arg.pcm.type = "Buffer"
  /\ last.arg.pcm.length = FrameLength(last.s)
  /\ LiveCoder(last.s)
  /\ last.res.error = "TypeError"

\* C19: an encode that throws leaves the Session as it was: configuration,
\* coder state, mode and native memory are unchanged, and whatever encode is
\* called next gives the result it would have given without the failed call,
\* on a Session with a live coder state the result a freshly constructed
\* Session gives.  A failure the wrapper detects (size, type) has not reached
\* the engine, whose state is therefore as before.
C19_FailedEncodeHarmless ==
  [][(last'.op = "encode" /\ last'.res.outcome = "throw")
     => (/\ UNCHANGED <<sess, libs, heap, alive, freed>>
         /\ \A pcm \in Frames(last'.s), sz \in PacketSizes, st \in EngineStatus :
              /\ Encoder_encode(sess'[last'.s], <<pcm, sz>>, heap'[sess'[last'.s].lib],
                                sess'[last'.s].coder \in alive', st)
                   = Encoder_encode(sess[last'.s], <<pcm, sz>>, heap[sess[last'.s].lib],
                                    sess[last'.s].coder \in alive, st)
              /\ LiveCoder(last'.s)
                 => Encoder_encode(sess'[last'.s], <<pcm, sz>>, heap'[sess'[last'.s].lib],
                                   sess'[last'.s].coder \in alive', st)
                      = Encoder_encode(sess'[last'.s], <<pcm, sz>>, {}, TRUE, st)
         /\ (last'.res.msg \in {SizeErrorMsg, "pcm must be Int16Array or Float32Array"})
            => (CodecCallsOf(last'.res.trace) = {} /\ calls' = calls))]_vars

C19_Witness ==
  /\ last.op = "encode"
  /\ last.res.outcome = "throw"
  /\ last.arg.pcm = Frame("Array", FrameLength(last.s))
  /\ LiveCoder(last.s)
  /\ heap[sess[last.s].lib] = {}

HandlesOf(s) == {sess[s].mode, sess[s].coder}

\* a Session that exists and on which destroy() has not been called
Undestroyed(s) == Born(s) /\ destroys[s] = 0

\* C20 as stated: in every interleaving of the operations of two unsafe
\* Sessions, the Sessions not yet destroyed use the one shared engine
\* instance and have live modes and coder states distinct from each other's,
\* and any destroy() on one Session leaves the mode and the coder state of
\* the other live.
C20_HandlesNeverShared ==
  [][/\ \A s \in Sessions :
          Undestroyed(s)'
          => (/\ sess'[s].lib = GlobalLib
              /\ {sess'[s].mode, sess'[s].coder} \subseteq alive'
              /\ \A t \in Sessions \ {s} :
                    Undestroyed(t)'
                    => {sess'[s].mode, sess'[s].coder}
                         \cap {sess'[t].mode, sess'[t].coder} = {})
     /\ (last'.op = "destroy")
        => \A t \in Sessions \ {last'.s} :
              Undestroyed(t) => HandlesOf(t) \subseteq alive']_vars

\* C20 amended: as long as destroy() has been called at most once on each
\* Session, the Sessions not yet destroyed use the one shared engine instance
\* and have live, pairwise distinct modes and coder states, and the first
\* destroy() on a Session destroys exactly its own mode and coder state and
\* leaves every other such Session as it was.
C20_LiveHandlesNeverShared ==
  [][(\A s \in Sessions : destroys'[s] <= 1)
     => (/\ \A s \in Sessions :
              Undestroyed(s)'
              => (/\ sess'[s].lib = GlobalLib
                  /\ {sess'[s].mode, sess'[s].coder} \subseteq alive'
                  /\ sess'[s].mode # sess'[s].coder
                  /\ \A t \in Sessions \ {s} :
                        Undestroyed(t)'
                        => {sess'[s].mode, sess'[s].coder}
                             \cap {sess'[t].mode, sess'[t].coder} = {})
         /\ (last'.op = "destroy")
            => (/\ alive' = alive \ HandlesOf(last'.s)
                /\ HandlesOf(last'.s) \subseteq alive
                /\ sess' = sess))]_vars

C20_Witness ==
  /\ last.op = "destroy"
  /\ destroys[last.s] = 1
  /\ \E t \in Sessions \ {last.s} :
        /\ Undestroyed(t)
        /\ sess[t].lib = sess[last.s].lib
        /\ HandlesOf(t) \subseteq alive
        /\ HandlesOf(t) \cap HandlesOf(last.s) = {}

\* C21: every call of a stream adapter's _transform calls its completion
\* callback exactly once, with an error or with one result chunk, for every
\* chunk written, those of a byte length that is no multiple of the sample
\* width and those at a byte offset that is no multiple of it included.
C21_CallbackExactlyOnce ==
  [][(last'.op = "write")
     => (/\ strm'[last'.s].cbs = strm[last'.s].cbs + 1
         /\ strm'[last'.s].escaped = strm[last'.s].escaped
         /\ \/ /\ strm'[last'.s].errs = strm[last'.s].errs + 1
               /\ strm'[last'.s].out = strm[last'.s].out
            \/ /\ strm'[last'.s].errs = strm[last'.s].errs
               /\ Len(strm'[last'.s].out) = Len(strm[last'.s].out) + 1)]_vars

\* an encode or decode call whose argument the wrapper has no reason to refuse
WellFormedCall(op, s, arg) ==
  IF op = "encode"
    THEN IsPcm(arg.pcm) /\ arg.pcm.length = FrameLength(s)
  ELSE op \in DecodeOps /\ arg.type \in {"null", "Buffer"}

\* every destroy() on an unsafe Session issues the destroy call of the coder
\* state and then that of the mode, on the handles the Session was
\* constructed with, and changes nothing in the Session
DestroyUnguarded ==
  (last'.op = "destroy" /\ sess[last'.s].unsafe)
  => (/\ Len(last'.res.trace) = 2
      /\ last'.res.trace[1].f \in DestroyCalls \ {"celt_mode_destroy"}
      /\ last'.res.trace[1].h = sess[last'.s].coder
      /\ last'.res.trace[2].f = "celt_mode_destroy"
      /\ last'.res.trace[2].h = sess[last'.s].mode
      /\ sess' = sess
      /\ freed'[sess[last'.s].coder] = destroys'[last'.s]
      /\ freed'[sess[last'.s].mode] = destroys'[last'.s])

\* op after destroy() on an unsafe Session reaches the engine, with the
\* destroyed coder state
ReachesEngine(ops) ==
  (/\ last'.op \in ops
   /\ sess[last'.s].unsafe
   /\ destroys[last'.s] > 0
   /\ WellFormedCall(last'.op, last'.s, last'.arg))
  => (/\ Cardinality(CodecCallsOf(last'.res.trace)) = 1
      /\ \A i \in CodecCallsOf(last'.res.trace) :
            /\ last'.res.trace[i].h = sess[last'.s].coder
            /\ last'.res.trace[i].h \notin alive)

\* C22: destroy() on an unsafe Session is unguarded and ordered: every call,
\* a second one included, destroys the coder state first and the mode second
\* on the same handles and records nothing in the Session, and an encode or
\* a decode after destroy() reaches the engine with the destroyed coder state
\* instead of being refused by the wrapper.
C22_DestroyUnguarded ==
  [][DestroyUnguarded /\ ReachesEngine({"encode"} \cup DecodeOps)]_vars
====
